---- MODULE Spec2Model ----
(***************************************************************************)
(* Object pool of the repository (Patterns/Object Pool Pattern): the class *)
(* ReusablePool with its class-level lists free and in_use, and the        *)
(* context manager PoolManager.  Objects are identified by the order in    *)
(* which Reusable() was called: 1, 2, 3, ...                               *)
(***************************************************************************)
EXTENDS Integers, Sequences, FiniteSets, TLC

(* ---- bounds of the model ---- *)
\* largest size a pool is constructed with
MaxSize == 3
\* number of ReusablePool instances one process constructs
MaxPools == 2
\* number of Reusable objects all pools of one process build together
MaxObj == 4
\* number of PoolManager instances
MaxMgrs == 2
\* number of threads that use one pool, or call one Singleton class, concurrently
MaxThreads == 2
\* number of classes whose metaclass is Singleton
MaxClasses == 3
\* number of calls of Singleton classes whose results the caller keeps
MaxRefs == 4
\* number of calls of Singleton classes the threads make together
MaxCalls == 3

\* Python's None
None == 0
\* a Reusable the caller constructed itself: no pool ever built it
Foreign == MaxObj + 1

VARIABLES
    free,       \* ReusablePool.free, the class-level list
    in_use,     \* ReusablePool.in_use, the class-level list
    size,       \* size[p]: self.size of the p-th constructed pool
    owner,      \* owner[o]: the pool whose __init__ built object o (history)
    mgr,        \* mgr[m]: the fields pool and obj of PoolManager m
    mstate,     \* mstate[m]: "new", "active" (entered, not exited) or "exited" (history)
    got,        \* got[m]: what the last successful __enter__ of m returned (history)
    unreset,    \* objects handed to a caller with no reset invoked on them since (history)
    idle,       \* the free objects, longest free first, as the calls' results tell (history)
    last,       \* the most recent call: operation, receiver, argument, result
    prev,       \* the call before it
    pc,         \* pc[t]: the statement of acquire / release thread t is at
    tobj,       \* tobj[t]: the local obj of the call thread t is in, then the object it holds
    terr,       \* terr[t]: what the last acquire of thread t raised, "none" if it returned
    instances,  \* Singleton._instances: instances[c] is the entry of class c, None if absent
    made,       \* made[c]: how often the constructor of class c has run (history)
    refs,       \* the results of the Singleton calls made so far, as [cls, inst]
    spc,        \* spc[t]: the statement of Singleton.__call__ thread t is at
    sinst       \* sinst[t]: the instance thread t constructed, then the one it returned

\* the pool, its callers and the history of their calls
poolVars == <<free, in_use, size, owner, mgr, mstate, got, unreset, idle, last, prev>>
\* the threads that share a pool
thrVars == <<pc, tobj, terr>>
\* the Singleton registry and its callers
sVars == <<instances, made, refs, spc, sinst>>

vars == <<poolVars, thrVars, sVars>>

Threads == 1..MaxThreads
Classes == 1..MaxClasses

Mgrs == 1..MaxMgrs

Range(s) == {s[i] : i \in 1..Len(s)}

\* the arguments a caller can pass to release: any object ever built, None,
\* or an object no pool built
Args == (1..Len(owner)) \cup {None, Foreign}

\* a logged call: op on pool `pool`, made directly (via = 0) or by PoolManager
\* `via`; its argument, what it returned and what it raised; exc is the
\* exception type a PoolManager.__exit__ was handed
Call(op, pool, via, arg, ret, err, exc) ==
    [op |-> op, pool |-> pool, via |-> via, arg |-> arg, ret |-> ret, err |-> err,
     exc |-> exc]

NoCall == Call("none", 0, 0, None, None, "none", "None")

(* ---- Python lists ---- *)

\* position of the first element of s equal to x, 0 when there is none
IndexOf(s, x) ==
    IF x \in Range(s) THEN CHOOSE i \in 1..Len(s) : s[i] = x /\ \A j \in 1..(i-1) : s[j] # x
    ELSE 0

\* list.remove(x) on a list that holds x: the first occurrence goes
ListRemove(s, x) ==
    LET k == IndexOf(s, x) IN [i \in 1..(Len(s)-1) |-> IF i < k THEN s[i] ELSE s[i+1]]

(* ---- ReusablePool ---- *)

\* __init__(self, size): self.size = size, then size times free.append(Reusable())
\* on the list the class holds; range(size) is empty for size <= 0
init(fr, ow, sz, n) ==
    LET k == IF n > 0 THEN n ELSE 0
        p == Len(sz) + 1
    IN [free  |-> fr \o [i \in 1..k |-> Len(ow) + i],
        owner |-> ow \o [i \in 1..k |-> p],
        size  |-> Append(sz, n)]

\* mutants of acquire
acquire_keep(fr, iu) ==
    IF Len(fr) <= 0 THEN [free |-> fr, in_use |-> iu, ret |-> None, err |-> "Exception"]
    ELSE [free |-> fr, in_use |-> Append(iu, fr[1]), ret |-> fr[1], err |-> "none"]

acquire_lt(fr, iu) ==
    IF Len(fr) < 0 THEN [free |-> fr, in_use |-> iu, ret |-> None, err |-> "Exception"]
    ELSE IF Len(fr) = 0 THEN [free |-> fr, in_use |-> iu, ret |-> None, err |-> "IndexError"]
    ELSE [free |-> ListRemove(fr, fr[1]), in_use |-> Append(iu, fr[1]),
          ret |-> fr[1], err |-> "none"]

acquire_none(fr, iu) ==
    IF Len(fr) <= 0 THEN [free |-> fr, in_use |-> iu, ret |-> None, err |-> "none"]
    ELSE [free |-> ListRemove(fr, fr[1]), in_use |-> Append(iu, fr[1]),
          ret |-> fr[1], err |-> "none"]

acquire_lifo(fr, iu) ==
    IF Len(fr) <= 0 THEN [free |-> fr, in_use |-> iu, ret |-> None, err |-> "Exception"]
    ELSE [free |-> SubSeq(fr, 1, Len(fr) - 1), in_use |-> Append(iu, fr[Len(fr)]),
          ret |-> fr[Len(fr)], err |-> "none"]

\* acquire(self): raise Exception when free is empty; otherwise obj = free[0],
\* free.remove(obj), in_use.append(obj), return obj
acquire(fr, iu) ==
    IF Len(fr) <= 0 THEN [free |-> fr, in_use |-> iu, ret |-> None, err |-> "Exception"]
    ELSE LET obj == fr[1]
         IN IF obj \notin Range(fr)
            THEN [free |-> fr, in_use |-> iu, ret |-> None, err |-> "ValueError"]
            ELSE [free |-> ListRemove(fr, obj), in_use |-> Append(iu, obj),
                  ret |-> obj, err |-> "none"]

\* mutants of release
release_blind(fr, iu, obj) ==
    IF obj \notin Range(iu) THEN [free |-> Append(fr, obj), in_use |-> iu, err |-> "ValueError"]
    ELSE [free |-> Append(fr, obj), in_use |-> ListRemove(iu, obj), err |-> "none"]

release_silent(fr, iu, obj) ==
    IF obj \notin Range(iu) THEN [free |-> fr, in_use |-> iu, err |-> "none"]
    ELSE [free |-> Append(fr, obj), in_use |-> ListRemove(iu, obj), err |-> "none"]

release_drop(fr, iu, obj) ==
    IF obj \notin Range(iu) THEN [free |-> fr, in_use |-> iu, err |-> "ValueError"]
    ELSE [free |-> fr, in_use |-> ListRemove(iu, obj), err |-> "none"]

\* release(self, obj): in_use.remove(obj), which raises ValueError when obj is
\* not in the list, then free.append(obj); no reset of obj is called
release(fr, iu, obj) ==
    IF obj \notin Range(iu) THEN [free |-> fr, in_use |-> iu, err |-> "ValueError"]
    ELSE [free |-> Append(fr, obj), in_use |-> ListRemove(iu, obj), err |-> "none"]

\* s without the entries equal to x
Without(s, x) == SelectSeq(s, LAMBDA y : y # x)

\* the free objects in the order they became free, after a call returned r
IdleAfterAcquire(q, r) == IF r.err = "none" THEN Without(q, r.ret) ELSE q
IdleAfterRelease(q, r, x) == IF r.err = "none" THEN Append(q, x) ELSE q

(* ---- initial states ---- *)

\* the class has been defined and nothing constructed: both lists empty
ClassState == [free |-> <<>>, owner |-> <<>>, size |-> <<>>]

\* no thread has called the pool yet
ThreadInit ==
    /\ pc = [t \in Threads |-> "idle"]
    /\ tobj = [t \in Threads |-> None]
    /\ terr = [t \in Threads |-> "none"]

\* Singleton._instances = {}: no class whose metaclass is Singleton was called yet
SingletonInit ==
    /\ instances = [c \in Classes |-> None]
    /\ made = [c \in Classes |-> 0]
    /\ refs = <<>>
    /\ spc = [t \in Threads |-> [at |-> "idle", cls |-> None]]
    /\ sinst = [t \in Threads |-> None]

\* no PoolManager has been entered
MgrInit ==
    /\ mgr = [m \in Mgrs |-> [pool |-> 1, obj |-> None]]
    /\ mstate = [m \in Mgrs |-> "new"]
    /\ got = [m \in Mgrs |-> None]

\* pool = ReusablePool(n): one pool, constructed with a positive size
Init ==
    \E n \in 1..MaxSize :
        LET c == init(ClassState.free, ClassState.owner, ClassState.size, n)
        IN /\ free = c.free
           /\ in_use = <<>>
           /\ size = c.size
           /\ owner = c.owner
           /\ MgrInit
           /\ ThreadInit
           /\ SingletonInit
           /\ unreset = {}
           /\ idle = c.free
           /\ last = Call("__init__", 1, 0, n, None, "none", "None")
           /\ prev = NoCall

(* ---- direct calls on a pool ---- *)

\* pool.acquire() on pool p
Acquire(p) ==
    LET r == acquire(free, in_use)
    IN /\ free' = r.free
       /\ in_use' = r.in_use
       /\ unreset' = IF r.err = "none" THEN unreset \cup {r.ret} ELSE unreset
       /\ idle' = IdleAfterAcquire(idle, r)
       /\ last' = Call("acquire", p, 0, None, r.ret, r.err, "None")
       /\ prev' = last
       /\ UNCHANGED <<size, owner, mgr, mstate, got, thrVars, sVars>>

\* pool.release(x) on pool p
Release(p, x) ==
    LET r == release(free, in_use, x)
    IN /\ free' = r.free
       /\ in_use' = r.in_use
       /\ idle' = IdleAfterRelease(idle, r, x)
       /\ last' = Call("release", p, 0, x, None, r.err, "None")
       /\ prev' = last
       /\ UNCHANGED <<size, owner, mgr, mstate, got, unreset, thrVars, sVars>>

Next ==
    \/ Acquire(1)
    \/ \E x \in Args : Release(1, x)

Spec == Init /\ [][Next]_vars

(* ---- PoolManager ---- *)

\* mutant of __enter__: the exception of acquire is swallowed, obj becomes None
PoolManager_enter_swallow(o, fr, iu) ==
    LET r == acquire(fr, iu)
    IN [obj |-> r.ret, free |-> r.free, in_use |-> r.in_use, ret |-> r.ret, err |-> "none"]

\* __enter__(self): self.obj = self.pool.acquire(); return self.obj.  When
\* acquire raises, the assignment does not happen and the exception propagates
PoolManager_enter(o, fr, iu) ==
    LET r == acquire(fr, iu)
    IN [obj |-> IF r.err = "none" THEN r.ret ELSE o,
        free |-> r.free, in_use |-> r.in_use, ret |-> r.ret, err |-> r.err]

\* mutant of __exit__: gives the object back only when the body raised nothing
PoolManager_exit_clean(o, fr, iu, type) ==
    IF type = "None"
    THEN LET r == release(fr, iu, o)
         IN [free |-> r.free, in_use |-> r.in_use, err |-> r.err, released |-> <<o>>]
    ELSE [free |-> fr, in_use |-> iu, err |-> "none", released |-> <<>>]

\* __exit__(self, type, value, traceback): self.pool.release(self.obj), whatever
\* type is; released lists the arguments of the release calls it made
PoolManager_exit(o, fr, iu, type) ==
    LET r == release(fr, iu, o)
    IN [free |-> r.free, in_use |-> r.in_use, err |-> r.err, released |-> <<o>>]

\* the exception type __exit__ is handed: None when the body completed, the
\* type of the exception when the body raised
ExcTypes == {"None", "Exception"}

\* m.__enter__() on PoolManager m, in whatever state m is
Enter(m) ==
    LET r == PoolManager_enter(mgr[m].obj, free, in_use)
    IN /\ free' = r.free
       /\ in_use' = r.in_use
       /\ mgr' = [mgr EXCEPT ![m].obj = r.obj]
       /\ mstate' = IF r.err = "none" THEN [mstate EXCEPT ![m] = "active"] ELSE mstate
       /\ got' = IF r.err = "none" THEN [got EXCEPT ![m] = r.ret] ELSE got
       /\ unreset' = IF r.err = "none" THEN unreset \cup {r.ret} ELSE unreset
       /\ idle' = IdleAfterAcquire(idle, r)
       /\ last' = Call("acquire", mgr[m].pool, m, None, r.ret, r.err, "None")
       /\ prev' = last
       /\ UNCHANGED <<size, owner, thrVars, sVars>>

\* m.__exit__(type, value, traceback) on PoolManager m, in whatever state m is
Exit(m, type) ==
    LET r == PoolManager_exit(mgr[m].obj, free, in_use, type)
    IN /\ free' = r.free
       /\ in_use' = r.in_use
       /\ mstate' = IF mstate[m] = "active" THEN [mstate EXCEPT ![m] = "exited"] ELSE mstate
       /\ last' = IF r.released = <<>>
                  THEN Call("none", mgr[m].pool, m, None, None, r.err, type)
                  ELSE Call("release", mgr[m].pool, m, r.released[1], None, r.err, type)
       /\ idle' = IF r.released = <<>> THEN idle ELSE IdleAfterRelease(idle, r, r.released[1])
       /\ prev' = last
       /\ UNCHANGED <<size, owner, mgr, got, unreset, thrVars, sVars>>

\* any sequence of __enter__ and __exit__ calls on the PoolManager instances
NextLease ==
    \/ \E m \in Mgrs : Enter(m)
    \/ \E m \in Mgrs, type \in ExcTypes : Exit(m, type)

SpecLease == Init /\ [][NextLease]_vars

\* with PoolManager(pool) as r: a new PoolManager (obj = None) is constructed
\* and entered; the body runs only when __enter__ returned
WithEnter(m) ==
    /\ mstate[m] # "active"
    /\ LET r == PoolManager_enter(None, free, in_use)
       IN /\ free' = r.free
          /\ in_use' = r.in_use
          /\ mgr' = [mgr EXCEPT ![m] = [pool |-> 1, obj |-> r.obj]]
          /\ mstate' = [mstate EXCEPT ![m] = IF r.err = "none" THEN "active" ELSE "new"]
          /\ got' = [got EXCEPT ![m] = r.ret]
          /\ unreset' = IF r.err = "none" THEN unreset \cup {r.ret} ELSE unreset
          /\ idle' = IdleAfterAcquire(idle, r)
          /\ last' = Call("acquire", 1, m, None, r.ret, r.err, "None")
          /\ prev' = last
          /\ UNCHANGED <<size, owner, thrVars, sVars>>

\* the body of the with statement of m ends, by completing (type = "None") or
\* by raising: the with statement calls __exit__ with the exception type
WithExit(m, type) ==
    /\ mstate[m] = "active"
    /\ Exit(m, type)

\* with statements on one pool, each on a PoolManager of its own, nested or
\* one after the other
NextScopes ==
    \/ \E m \in Mgrs : WithEnter(m)
    \/ \E m \in Mgrs, type \in ExcTypes : WithExit(m, type)

SpecScopes == Init /\ [][NextScopes]_vars

(* ---- several pools in one process ---- *)

\* ReusablePool(n): the next pool of the process is constructed
Construct(n) ==
    /\ Len(size) < MaxPools
    /\ Len(owner) + (IF n > 0 THEN n ELSE 0) <= MaxObj
    /\ LET c == init(free, owner, size, n)
       IN /\ free' = c.free
          /\ owner' = c.owner
          /\ size' = c.size
          /\ last' = Call("__init__", Len(c.size), 0, n, None, "none", "None")
          /\ idle' = idle \o SubSeq(c.free, Len(free) + 1, Len(c.free))
          /\ prev' = last
          /\ UNCHANGED <<in_use, mgr, mstate, got, unreset, thrVars, sVars>>

\* the classes are defined, no pool is constructed yet
InitPools ==
    /\ free = ClassState.free
    /\ in_use = <<>>
    /\ size = ClassState.size
    /\ owner = ClassState.owner
    /\ mgr = [m \in Mgrs |-> [pool |-> None, obj |-> None]]
    /\ mstate = [m \in Mgrs |-> "new"]
    /\ got = [m \in Mgrs |-> None]
    /\ unreset = {}
    /\ idle = <<>>
    /\ ThreadInit
    /\ SingletonInit
    /\ last = NoCall
    /\ prev = NoCall

\* constructions of pools and direct calls on any of them, in any order
NextPools ==
    \/ \E n \in (-1)..MaxSize : Construct(n)
    \/ \E p \in 1..Len(size) : Acquire(p)
    \/ \E p \in 1..Len(size), x \in Args : Release(p, x)

SpecPools == InitPools /\ [][NextPools]_vars

(* ---- threads on one pool, statement by statement ---- *)

\* len(self.free) <= 0, the test acquire starts with
stmt_empty(fr) == Len(fr) <= 0

\* obj = self.free[0]: IndexError on an empty list
stmt_first(fr) ==
    IF Len(fr) = 0 THEN [obj |-> None, err |-> "IndexError"]
    ELSE [obj |-> fr[1], err |-> "none"]

\* mutant of stmt_remove: an absent object is passed over in silence
stmt_remove_lenient(lst, obj) ==
    IF obj \notin Range(lst) THEN [list |-> lst, err |-> "none"]
    ELSE [list |-> ListRemove(lst, obj), err |-> "none"]

\* self.free.remove(obj) and self.in_use.remove(obj): ValueError when obj is
\* not in the list
stmt_remove(lst, obj) ==
    IF obj \notin Range(lst) THEN [list |-> lst, err |-> "ValueError"]
    ELSE [list |-> ListRemove(lst, obj), err |-> "none"]

\* self.in_use.append(obj) and self.free.append(obj)
stmt_append(lst, obj) == Append(lst, obj)

\* thread t calls acquire and runs its test: the call ends with the exhaustion
\* error, or goes on to read free[0]
AcqCheck(t) ==
    /\ pc[t] = "idle"
    /\ IF stmt_empty(free)
       THEN /\ terr' = [terr EXCEPT ![t] = "Exception"]
            /\ pc' = pc
       ELSE /\ pc' = [pc EXCEPT ![t] = "a_first"]
            /\ terr' = terr
    /\ UNCHANGED <<poolVars, tobj, sVars>>

\* obj = self.free[0]
AcqFirst(t) ==
    /\ pc[t] = "a_first"
    /\ LET r == stmt_first(free)
       IN IF r.err = "none"
          THEN /\ tobj' = [tobj EXCEPT ![t] = r.obj]
               /\ pc' = [pc EXCEPT ![t] = "a_remove"]
               /\ terr' = terr
          ELSE /\ terr' = [terr EXCEPT ![t] = r.err]
               /\ pc' = [pc EXCEPT ![t] = "idle"]
               /\ tobj' = tobj
    /\ UNCHANGED <<poolVars, sVars>>

\* self.free.remove(obj)
AcqRemove(t) ==
    /\ pc[t] = "a_remove"
    /\ LET r == stmt_remove(free, tobj[t])
       IN /\ free' = r.list
          /\ IF r.err = "none"
             THEN /\ pc' = [pc EXCEPT ![t] = "a_append"]
                  /\ UNCHANGED <<tobj, terr>>
             ELSE /\ terr' = [terr EXCEPT ![t] = r.err]
                  /\ pc' = [pc EXCEPT ![t] = "idle"]
                  /\ tobj' = [tobj EXCEPT ![t] = None]
    /\ UNCHANGED <<in_use, size, owner, mgr, mstate, got, unreset, idle, last, prev, sVars>>

\* self.in_use.append(obj)
AcqAppend(t) ==
    /\ pc[t] = "a_append"
    /\ in_use' = stmt_append(in_use, tobj[t])
    /\ pc' = [pc EXCEPT ![t] = "a_return"]
    /\ UNCHANGED <<free, size, owner, mgr, mstate, got, unreset, idle, last, prev,
                   tobj, terr, sVars>>

\* return obj: from here on thread t holds the object
AcqReturn(t) ==
    /\ pc[t] = "a_return"
    /\ pc' = [pc EXCEPT ![t] = "holding"]
    /\ terr' = [terr EXCEPT ![t] = "none"]
    /\ unreset' = unreset \cup {tobj[t]}
    /\ idle' = Without(idle, tobj[t])
    /\ UNCHANGED <<free, in_use, size, owner, mgr, mstate, got, last, prev, tobj, sVars>>

\* thread t calls release on the object it holds: self.in_use.remove(obj)
RelRemove(t) ==
    /\ pc[t] = "holding"
    /\ LET r == stmt_remove(in_use, tobj[t])
       IN /\ in_use' = r.list
          /\ IF r.err = "none"
             THEN /\ pc' = [pc EXCEPT ![t] = "r_append"]
                  /\ tobj' = tobj
             ELSE /\ pc' = [pc EXCEPT ![t] = "idle"]
                  /\ tobj' = [tobj EXCEPT ![t] = None]
    /\ UNCHANGED <<free, size, owner, mgr, mstate, got, unreset, idle, last, prev,
                   terr, sVars>>

\* self.free.append(obj), and release returns
RelAppend(t) ==
    /\ pc[t] = "r_append"
    /\ free' = stmt_append(free, tobj[t])
    /\ idle' = Append(idle, tobj[t])
    /\ pc' = [pc EXCEPT ![t] = "idle"]
    /\ tobj' = [tobj EXCEPT ![t] = None]
    /\ UNCHANGED <<in_use, size, owner, mgr, mstate, got, unreset, last, prev, terr, sVars>>

\* threads that each acquire, hold and release what they acquired, again and
\* again, interleaved statement by statement
NextThreads ==
    \E t \in Threads :
        \/ AcqCheck(t)
        \/ AcqFirst(t)
        \/ AcqRemove(t)
        \/ AcqAppend(t)
        \/ AcqReturn(t)
        \/ RelRemove(t)
        \/ RelAppend(t)

SpecThreads == Init /\ [][NextThreads]_vars

\* thread t has been returned an object and its release has not completed
Holds(t) == pc[t] \in {"holding", "r_append"}

(* ---- Singleton (Anti-pattern/Singleton) ---- *)

RECURSIVE SumTo(_, _)
\* md[1] + ... + md[k]
SumTo(md, k) == IF k = 0 THEN 0 ELSE md[k] + SumTo(md, k - 1)

\* mutant of s_missing: the membership test always finds the class missing
s_missing_always(inst, c) == TRUE

\* cls not in cls._instances
s_missing(inst, c) == inst[c] = None

\* super(Singleton, cls).__call__(*args, **kwargs): the constructor of class c
\* runs and yields a new object, numbered in the order of construction
s_construct(md, c) ==
    [made |-> [md EXCEPT ![c] = @ + 1], obj |-> SumTo(md, MaxClasses) + 1]

\* cls._instances[cls] = ...
s_store(inst, c, i) == [inst EXCEPT ![c] = i]

\* return cls._instances[cls]
s_lookup(inst, c) == inst[c]

\* mutant of Singleton_call: no membership test, every call constructs
Singleton_call_always(inst, md, c) ==
    LET n == s_construct(md, c)
        st == s_store(inst, c, n.obj)
    IN [instances |-> st, made |-> n.made, ret |-> s_lookup(st, c)]

\* Singleton.__call__(cls), run from start to end by one caller
Singleton_call(inst, md, c) ==
    IF s_missing(inst, c)
    THEN LET n == s_construct(md, c)
             st == s_store(inst, c, n.obj)
         IN [instances |-> st, made |-> n.made, ret |-> s_lookup(st, c)]
    ELSE [instances |-> inst, made |-> md, ret |-> s_lookup(inst, c)]

\* x = C() for a class C whose metaclass is Singleton; the caller keeps x
SCall(c) ==
    /\ Len(refs) < MaxRefs
    /\ LET r == Singleton_call(instances, made, c)
       IN /\ instances' = r.instances
          /\ made' = r.made
          /\ refs' = Append(refs, [cls |-> c, inst |-> r.ret])
    /\ UNCHANGED <<poolVars, thrVars, spc, sinst>>

\* calls of Singleton classes, one after the other
NextSingleton == \E c \in Classes : SCall(c)

SpecSingleton == InitPools /\ [][NextSingleton]_vars

\* the calls begun and not yet returned
InFlight == Cardinality({t \in Threads : spc[t].at # "idle"})

\* thread t calls class c: if cls not in cls._instances
SBegin(t, c) ==
    /\ spc[t].at = "idle"
    /\ Len(refs) + InFlight < MaxCalls
    /\ spc' = [spc EXCEPT ![t] = [at |-> IF s_missing(instances, c) THEN "construct"
                                         ELSE "return",
                                  cls |-> c]]
    /\ UNCHANGED <<poolVars, thrVars, instances, made, refs, sinst>>

\* the right-hand side of the assignment: the constructor runs
SConstruct(t) ==
    /\ spc[t].at = "construct"
    /\ LET n == s_construct(made, spc[t].cls)
       IN /\ made' = n.made
          /\ sinst' = [sinst EXCEPT ![t] = n.obj]
    /\ spc' = [spc EXCEPT ![t].at = "store"]
    /\ UNCHANGED <<poolVars, thrVars, instances, refs>>

\* the assignment to cls._instances[cls]
SStore(t) ==
    /\ spc[t].at = "store"
    /\ instances' = s_store(instances, spc[t].cls, sinst[t])
    /\ spc' = [spc EXCEPT ![t].at = "return"]
    /\ UNCHANGED <<poolVars, thrVars, made, refs, sinst>>

\* return cls._instances[cls]; the caller keeps the result
SReturn(t) ==
    /\ spc[t].at = "return"
    /\ refs' = Append(refs, [cls |-> spc[t].cls, inst |-> s_lookup(instances, spc[t].cls)])
    /\ sinst' = [sinst EXCEPT ![t] = None]
    /\ spc' = [spc EXCEPT ![t] = [at |-> "idle", cls |-> None]]
    /\ UNCHANGED <<poolVars, thrVars, instances, made>>

\* threads calling Singleton classes, interleaved statement by statement
NextSingletonRace ==
    \E t \in Threads :
        \/ \E c \in Classes : SBegin(t, c)
        \/ SConstruct(t)
        \/ SStore(t)
        \/ SReturn(t)

SpecSingletonRace == InitPools /\ [][NextSingletonRace]_vars

(* ---- properties ---- *)

NoDuplicates(s) == Cardinality(Range(s)) = Len(s)

\* C1 (conservation): after every acquire and release call on a pool
\* constructed with size n, successful or failing and whatever release was
\* given, len(free) + len(in_use) = n.
C1_Conservation == Len(free) + Len(in_use) = size[1]

\* a release that failed on an object of no pool, with objects in both lists
C1_Witness ==
    /\ last.op = "release" /\ last.arg = Foreign /\ last.err = "ValueError"
    /\ free # <<>> /\ in_use # <<>>

\* C2 (disjointness): no object is in both free and in_use, and no object
\* occurs twice in free or twice in in_use.
C2_Disjoint ==
    /\ Range(free) \cap Range(in_use) = {}
    /\ NoDuplicates(free)
    /\ NoDuplicates(in_use)

\* an object came back to free while another is still in use
C2_Witness ==
    /\ last.op = "release" /\ last.err = "none"
    /\ Len(free) >= 2 /\ in_use # <<>>

\* C3 (exhaustion): an acquire on an empty free raises the exhaustion error,
\* returns nothing, builds no object and leaves free, in_use and size as they
\* were; an acquire that follows a successful release succeeds.
C3_Exhaustion ==
    [][/\ (free = <<>> /\ last'.op = "acquire") =>
            /\ last'.err = "Exception" /\ last'.ret = None
            /\ free' = free /\ in_use' = in_use /\ size' = size /\ owner' = owner
       /\ (last.op = "release" /\ last.err = "none" /\ last'.op = "acquire") =>
            /\ last'.err = "none"
            /\ last'.ret \in Range(in_use')]_vars

\* the pool was emptied by an acquire and the next acquire failed
C3_Witness ==
    /\ prev.op = "acquire" /\ prev.err = "none"
    /\ last.op = "acquire" /\ last.err = "Exception"
    /\ free = <<>> /\ Len(in_use) = size[1]

\* C4 (guarded release): release(x) for an x that is not in in_use raises an
\* error and leaves free and in_use unchanged.
C4_GuardedRelease ==
    [][(last'.op = "release" /\ last'.arg \notin Range(in_use)) =>
            /\ last'.err # "none"
            /\ free' = free /\ in_use' = in_use]_vars

\* acquire A, release A, release A: the second release failed
C4_Witness ==
    /\ prev.op = "release" /\ prev.err = "none"
    /\ last.op = "release" /\ last.arg = prev.arg /\ last.err = "ValueError"
    /\ last.arg \in Range(free)

\* C5 (reset before reuse): a released object is reset before it is put into
\* free, so every object in free has been reset since it was last handed out.
C5_ResetBeforeReuse == \A i \in 1..Len(free) : free[i] \notin unreset

\* C6 (scoped release): when the with statement of a PoolManager that entered
\* ends, by completion or by an exception of the body, release is called on the
\* object the scope acquired and succeeds, and that object is then in free and
\* not in in_use; a with statement started while no other is open succeeds.
C6_ScopedRelease ==
    [][/\ \A m \in Mgrs :
            (mstate[m] = "active" /\ mstate'[m] = "exited") =>
                /\ last'.op = "release" /\ last'.via = m
                /\ last'.arg = got[m] /\ last'.err = "none"
                /\ got[m] \in Range(free')
                /\ got[m] \notin Range(in_use')
       /\ ((\A m \in Mgrs : mstate[m] # "active") /\ last'.op = "acquire") =>
            /\ last'.err = "none"
            /\ \E m \in Mgrs : mstate'[m] = "active" /\ got'[m] = last'.ret]_vars

\* a scope whose body raised has ended and its object is back in free
C6_Witness ==
    /\ last.op = "release" /\ last.exc = "Exception" /\ last.err = "none"
    /\ last.via \in Mgrs
    /\ mstate[last.via] = "exited"
    /\ got[last.via] = last.arg
    /\ last.arg \in Range(free) /\ last.arg \notin Range(in_use)

\* C7 (idempotent lease release): __exit__ on a PoolManager that has already
\* exited raises nothing and leaves free and in_use unchanged.
C7_IdempotentExit ==
    [][\A m \in Mgrs :
            (mstate[m] = "exited" /\ last'.via = m /\ last'.op # "acquire") =>
                /\ last'.err = "none"
                /\ free' = free /\ in_use' = in_use]_vars

\* C8 (lease/bookkeeping agreement): an object is in in_use if and only if
\* exactly one active PoolManager has it as its obj.
C8_LeaseAgreement ==
    \A o \in 1..Len(owner) :
        (o \in Range(in_use)) <=>
            (Cardinality({m \in Mgrs : mstate[m] = "active" /\ mgr[m].obj = o}) = 1)

\* C9 (identity reuse): acquire returns only objects built at construction and
\* builds none; when the pool was fully leased and A was released, the next
\* acquire returns A; with nothing in use, free holds all the objects built.
C9_IdentityReuse ==
    /\ Len(owner) = size[1]
    /\ (last.op = "acquire" /\ last.err = "none") => last.ret \in 1..size[1]
    /\ (prev.op = "release" /\ prev.err = "none" /\ last.op = "acquire" /\ free = <<>>) =>
            (last.err = "none" /\ last.ret = prev.arg)
    /\ (in_use = <<>>) => (Len(free) = size[1] /\ Range(free) = 1..size[1])

\* fully leased pool of at least two objects, A released, A acquired again
C9_Witness ==
    /\ size[1] >= 2
    /\ prev.op = "release" /\ prev.err = "none"
    /\ last.op = "acquire" /\ last.ret = prev.arg
    /\ free = <<>>

\* C10 (construction): right after ReusablePool(n) with n > 0, free holds
\* exactly n distinct objects and in_use is empty.
C10_Construction ==
    (last.op = "__init__" /\ last.arg > 0) =>
        /\ Len(free) = last.arg
        /\ NoDuplicates(free)
        /\ in_use = <<>>

\* C11 (invalid capacity): ReusablePool(n) with n <= 0 raises an error and
\* leaves no pool behind.
C11_InvalidCapacity ==
    (last.op = "__init__" /\ last.arg <= 0) =>
        /\ last.err # "none"
        /\ last.pool \notin 1..Len(size)

\* C14 (failed enter): when the __enter__ of a with statement finds free
\* empty, the exhaustion error propagates, the PoolManager does not become
\* active and its obj stays None, no other PoolManager changes, free and in_use
\* are unchanged, and no __exit__ (hence no release) follows for that scope.
C14_FailedEnter ==
    [][\A m \in Mgrs :
            /\ (free = <<>> /\ last'.op = "acquire" /\ last'.via = m) =>
                    /\ last'.err = "Exception" /\ last'.ret = None
                    /\ mgr'[m].obj = None /\ mstate'[m] # "active"
                    /\ \A k \in Mgrs \ {m} : mgr'[k] = mgr[k] /\ mstate'[k] = mstate[k]
                    /\ free' = free /\ in_use' = in_use
            /\ (mstate[m] # "active" /\ last'.via = m) => last'.op = "acquire"]_vars

\* a PoolManager never entered before failed to enter an exhausted pool
C14_Witness ==
    /\ last.op = "acquire" /\ last.err = "Exception" /\ last.via \in Mgrs
    /\ mstate[last.via] = "new" /\ mgr[last.via].obj = None
    /\ free = <<>> /\ in_use # <<>>

\* C16 (FIFO selection): acquire returns the head of free and release appends
\* to its tail, so acquire returns the object that has been free the longest.
C16_Fifo ==
    [][/\ (last'.op = "acquire" /\ free # <<>>) =>
            /\ last'.err = "none"
            /\ last'.ret = Head(free) /\ free' = Tail(free)
            /\ idle # <<>> /\ last'.ret = Head(idle)
       /\ (last'.op = "release" /\ last'.err = "none") =>
            free' = Append(free, last'.arg)]_vars

\* an acquire returned an object built later than one that is still free:
\* the order of the releases decided, not the order of construction
C16_Witness ==
    /\ last.op = "acquire" /\ last.err = "none"
    /\ free # <<>> /\ last.ret > free[1]

\* C18 (pool independence): with two pools, acquire on a pool returns only
\* objects that pool built, and acquire and release on one pool leave the
\* free and in_use of the other pool (the lists the class holds) unchanged.
C18_PoolIndependence ==
    [][(/\ Len(size) >= 2
        /\ \A p \in 1..Len(size) : size[p] > 0
        /\ last'.op \in {"acquire", "release"}) =>
            /\ (last'.op = "acquire" /\ last'.err = "none") => owner[last'.ret] = last'.pool
            /\ free' = free /\ in_use' = in_use]_vars

\* C12 (invariants under concurrency): in every state of the threads'
\* interleaving, those with a thread in the middle of acquire or release
\* included, len(free) + len(in_use) = size and free and in_use are disjoint.
C12_ConcurrentInvariants ==
    /\ Len(free) + Len(in_use) = size[1]
    /\ Range(free) \cap Range(in_use) = {}

\* C13 (exclusive leasing): no two threads hold the same object at once.
C13_ExclusiveLease ==
    \A t, u \in Threads : (t # u /\ Holds(t) /\ Holds(u)) => tobj[t] # tobj[u]

\* thread t holds an object that thread u, which read free[0] before t took
\* it, is about to remove from free
C13_Witness ==
    \E t, u \in Threads :
        /\ t # u /\ pc[t] = "holding" /\ pc[u] = "a_remove"
        /\ tobj[u] = tobj[t]

\* C15 (blocking acquire), as stated: with size 1 and the object leased, an
\* acquire does not end with the exhaustion error.
C15_BlockingAcquire ==
    [][(size[1] = 1 /\ in_use # <<>> /\ last'.op = "acquire") =>
            last'.err # "Exception"]_vars

\* C15 as amended: with size 1 and the object leased, an acquire fails at once
\* with the exhaustion error and changes nothing; the acquire that follows the
\* release of the object succeeds and returns that same object.
C15_NonBlockingAcquire ==
    [][/\ (size[1] = 1 /\ in_use # <<>> /\ last'.op = "acquire") =>
            /\ last'.err = "Exception"
            /\ free' = free /\ in_use' = in_use
       /\ (size[1] = 1 /\ last.op = "release" /\ last.err = "none"
                /\ last'.op = "acquire") =>
            /\ last'.err = "none"
            /\ last'.ret = last.arg]_vars

\* pool of one: X acquired the object, then the acquire of Y failed
C15_Witness ==
    /\ size[1] = 1
    /\ prev.op = "acquire" /\ prev.err = "none"
    /\ last.op = "acquire" /\ last.err = "Exception"
    /\ in_use = <<prev.ret>>

\* C17 (acquire fails only on exhaustion): under every interleaving an acquire
\* returns an object or raises the exhaustion error, nothing else.
C17_OnlyExhaustion == \A t \in Threads : terr[t] \in {"none", "Exception"}

\* the results the callers got for class c
ResultsOf(c) == {refs[i].inst : i \in {j \in 1..Len(refs) : refs[j].cls = c}}

\* C19 (Singleton, sequential): for calls made one after the other the
\* constructor of a class runs at most once, all calls of a class return the
\* same instance, and an entry of _instances is never replaced once set.
C19_SingletonUnique ==
    [][\A c \in Classes :
            /\ made'[c] <= 1
            /\ Cardinality(ResultsOf(c)') <= 1
            /\ (instances'[c] # None) => ResultsOf(c)' \subseteq {instances'[c]}
            /\ (instances[c] # None) => instances'[c] = instances[c]]_vars

\* a class was called twice and a second class once
C19_Witness ==
    /\ Len(refs) >= 3
    /\ refs[1].cls = refs[3].cls /\ refs[1].inst = refs[3].inst
    /\ refs[2].cls # refs[1].cls /\ refs[2].inst # refs[1].inst

\* C20 (first-access race): two threads that call a class not yet instantiated
\* can both find it missing, so that two instances are made and the callers
\* get different ones; a thread constructs a class at most once, so a class
\* is never constructed more often than there are threads, and callers get
\* different instances only when its constructor ran more than once.
C20_FirstAccessRace ==
    \A c \in Classes :
        /\ made[c] <= MaxThreads
        /\ Cardinality(ResultsOf(c)) <= made[c]

\* two callers of one class were returned different instances
C20_Witness ==
    \E c \in Classes :
        /\ made[c] = 2
        /\ Cardinality(ResultsOf(c)) = 2
        /\ Len(refs) = 2

====
